---------------------------- MODULE Spec2Model ----------------------------
(***************************************************************************)
(* MindMeld: a BrainFuck derivative with two data pointers (src/main.cpp). *)
(*                                                                         *)
(* The model follows main(): the raw source is sanitized (source_sanitize  *)
(* or switch_sanitize, chosen by SWITCH), then either executed directly    *)
(* (execute) or tokenized and executed (tokenize, execute_tokens), chosen  *)
(* by TOKENS.  One interpreter action is one turn of the interpreter's     *)
(* loop.                                                                   *)
(*                                                                         *)
(* Strings are sequences of one-character strings.  The data tape is kept  *)
(* as the function from the offsets of its non-zero cells to their values: *)
(* a cell that is not in the domain holds 0 (the tape is zero-initialized).*)
(***************************************************************************)
EXTENDS Integers, Sequences, FiniteSets, TLC

VARIABLES
    raw_source,          \* main: the text source_read returned
    SWITCH,              \* global flag --switch
    TOKENS,              \* global flag --tokens
    instructions,        \* main: the sanitized text
    tokens,              \* main: the vector tokenize filled
    jump_stack,          \* tokenize: its position stack when it returned
    pc,                  \* where the process is
    instruction_pointer, \* execute: character offset; execute_tokens: index
    data_tape,           \* the non-zero cells of the 30000 byte tape
    data_pointer_A,      \* offset of pointer A from the start of the tape
    data_pointer_B,      \* offset of pointer B from the start of the tape
    output,              \* the bytes the interpreter wrote to std::cout
    keys,                \* the bytes getch() has returned so far
    steps,               \* turns of the interpreter loop taken so far
    ub,                  \* the undefined behaviour executed so far
    trace,               \* the indices of the instructions executed so far
    argv,                \* main: the command line, argv[0] first
    path,                \* main: the path of the source file
    prompted             \* main: it asked for the path and read a line

vars == <<raw_source, SWITCH, TOKENS, instructions, tokens, jump_stack, pc,
          instruction_pointer, data_tape, data_pointer_A, data_pointer_B,
          output, keys, steps, ub, trace, argv, path, prompted>>

----------------------------------------------------------------------------
(* Bounds of the model *)

\* longest raw text enumerated character by character
MaxRawLen == 3

\* longest program (in instructions) enumerated instruction by instruction
MaxProg == 2

\* turns of an interpreter loop after which the model stops following a run
MaxSteps == 12

\* characters the terminal delivers; getch() then blocks for ever
MaxKeys == 2

\* arguments on the command line after argv[0]
MaxArgs == 2

----------------------------------------------------------------------------
(* Characters *)

OpChars == {"<", ">", "-", "+", ".", ",", "[", "]"}

SelChars == {"A", "B"}

\* "x" stands for every character that is neither an operation nor A or B
RawChars == OpChars \cup SelChars \cup {"x"}

----------------------------------------------------------------------------
(* source_sanitize *)

\* SanitizeChar with the flag cleared when a repeated selector is dropped
SanitizeCharToggle(c, st) ==
    IF c \in SelChars
    THEN IF st.lastWasAB
         THEN [st EXCEPT !.lastWasAB = FALSE]
         ELSE [lastWasAB |-> TRUE, stream |-> Append(st.stream, c)]
    ELSE IF c \in OpChars
         THEN [lastWasAB |-> FALSE, stream |-> Append(st.stream, c)]
         ELSE st

\* SanitizeChar with a repeated selector written over the one before it
SanitizeCharKeepLast(c, st) ==
    IF c \in SelChars
    THEN IF st.lastWasAB
         THEN [st EXCEPT !.stream[Len(st.stream)] = c]
         ELSE [lastWasAB |-> TRUE, stream |-> Append(st.stream, c)]
    ELSE IF c \in OpChars
         THEN [lastWasAB |-> FALSE, stream |-> Append(st.stream, c)]
         ELSE st

\* One turn of source_sanitize's loop, on character c.
SanitizeChar(c, st) ==
    IF c \in SelChars
    THEN IF st.lastWasAB
         THEN st
         ELSE [lastWasAB |-> TRUE, stream |-> Append(st.stream, c)]
    ELSE IF c \in OpChars
         THEN [lastWasAB |-> FALSE, stream |-> Append(st.stream, c)]
         ELSE st

RECURSIVE SanitizeFrom(_, _, _)
SanitizeFrom(source, i, st) ==
    IF i > Len(source)
    THEN st
    ELSE SanitizeFrom(source, i + 1, SanitizeChar(source[i], st))

source_sanitize(source) ==
    SanitizeFrom(source, 1, [lastWasAB |-> FALSE, stream |-> <<>>]).stream

----------------------------------------------------------------------------
(* switch_sanitize *)

\* SwitchChar with the break of case 'B' missing: the selector falls through
\* into the operation case
SwitchCharFallthrough(c, st) ==
    IF c \in SelChars
    THEN [ptr_specifier |-> c, stream |-> st.stream \o <<c, c>>]
    ELSE IF c \in OpChars
         THEN [st EXCEPT !.stream = st.stream \o <<c, st.ptr_specifier>>]
         ELSE st

\* One turn of switch_sanitize's loop, on character c.
SwitchChar(c, st) ==
    IF c \in SelChars
    THEN [st EXCEPT !.ptr_specifier = c]
    ELSE IF c \in OpChars
         THEN [st EXCEPT !.stream = st.stream \o <<c, st.ptr_specifier>>]
         ELSE st

RECURSIVE SwitchFrom(_, _, _)
SwitchFrom(source, i, st) ==
    IF i > Len(source)
    THEN st
    ELSE SwitchFrom(source, i + 1, SwitchChar(source[i], st))

switch_sanitize(source) ==
    SwitchFrom(source, 1, [ptr_specifier |-> "A", stream |-> <<>>]).stream

----------------------------------------------------------------------------
(* tokenize *)

InstrType == {"PLUS", "MINUS", "LEFT", "RIGHT", "INPUT", "OUTPUT",
              "LOOP_OPEN", "LOOP_CLOSE"}

Ptr == {"A", "B"}

TypeOf(ch) ==
    CASE ch = "<" -> "LEFT"
      [] ch = ">" -> "RIGHT"
      [] ch = "-" -> "MINUS"
      [] ch = "+" -> "PLUS"
      [] ch = "." -> "OUTPUT"
      [] ch = "," -> "INPUT"
      [] ch = "[" -> "LOOP_OPEN"
      [] ch = "]" -> "LOOP_CLOSE"

\* What tokenize reads where the language defines no value: the top of an
\* empty stack (pos), and the fields of ins that neither switch assigned.
\* (pos 1000000 stands for every value that is no index of the vector.)
Garbage ==
    [pos : {0, 1, 1000000}, type : {"PLUS", "LOOP_OPEN", "LOOP_CLOSE"},
     ptr : {"A", "?"}]

NoGarbage == [pos |-> 0, type |-> "PLUS", ptr |-> "A"]

\* JumpDistance counted in characters
JumpDistanceChars(char_pos, pos) == char_pos - (2 * pos)

\* The distance tokenize records on a bracket pair: the LOOP_CLOSE at
\* character offset char_pos, the LOOP_OPEN at instruction index pos.  The
\* uint64_t difference wraps only when pos exceeds the index of the
\* LOOP_CLOSE, and then out.at(pos) throws and the vector is never used.
JumpDistance(char_pos, pos) == (char_pos \div 2) - pos

\* RecordJump without the assignment to the LOOP_OPEN
RecordJumpCloseOnly(out, pos, jump_distance) ==
    [out EXCEPT ![Len(out)].jump = jump_distance]

\* out.back().jump = jump_distance; out.at(pos).jump = jump_distance
RecordJump(out, pos, jump_distance) ==
    [[out EXCEPT ![Len(out)].jump = jump_distance]
          EXCEPT ![pos + 1].jump = jump_distance]

\* One turn of tokenize's loop, on the pair at character offset char_pos
\* (counted from 0).  st.out is the vector, st.jump_stack the stack (its
\* top is its last element), st.ub the undefined behaviour met, st.threw
\* whether out.at() threw.
TokenizeStep(source, char_pos, st, g) ==
    LET opc   == source[char_pos + 1]
        selc  == source[char_pos + 2]
        type  == IF opc \in OpChars THEN TypeOf(opc) ELSE g.type
        ptr   == IF selc \in SelChars THEN selc ELSE g.ptr
        ub1   == st.ub \cup (IF opc \in OpChars /\ selc \in SelChars
                             THEN {} ELSE {"uninitialized"})
        ins   == [type |-> type, ptr |-> ptr, jump |-> 0]
        out1  == Append(st.out, ins)
        idx   == char_pos \div 2
    IN  IF type = "LOOP_OPEN"
        THEN [st EXCEPT !.out = out1, !.ub = ub1,
                        !.jump_stack = Append(st.jump_stack, idx)]
        ELSE IF type = "LOOP_CLOSE"
        THEN LET empty == st.jump_stack = <<>>
                 pos   == IF empty THEN g.pos
                          ELSE st.jump_stack[Len(st.jump_stack)]
                 stack == IF empty THEN <<>>
                          ELSE SubSeq(st.jump_stack, 1, Len(st.jump_stack) - 1)
                 ub2   == ub1 \cup (IF empty THEN {"pop_empty"} ELSE {})
                 jump_distance == JumpDistance(char_pos, pos)
             IN  IF pos >= Len(out1)
                 THEN [out |-> out1, jump_stack |-> stack, ub |-> ub2,
                       threw |-> TRUE]
                 ELSE [out |-> RecordJump(out1, pos, jump_distance),
                       jump_stack |-> stack, ub |-> ub2, threw |-> FALSE]
        ELSE [st EXCEPT !.out = out1, !.ub = ub1]

RECURSIVE TokenizeFrom(_, _, _, _)
TokenizeFrom(source, char_pos, st, g) ==
    IF char_pos >= Len(source) \/ st.threw
    THEN st
    ELSE TokenizeFrom(source, char_pos + 2,
                      TokenizeStep(source, char_pos, st, g), g)

\* tokenize(source, out), reading g where the language defines no value.
\* asserted: the assertion on the length failed.
tokenize(source, g) ==
    LET st0 == [out |-> <<>>, jump_stack |-> <<>>, ub |-> {}, threw |-> FALSE]
    IN  IF Len(source) % 2 # 0
        THEN [out |-> <<>>, jump_stack |-> <<>>, ub |-> {}, threw |-> FALSE,
              asserted |-> TRUE]
        ELSE LET r == TokenizeFrom(source, 0, st0, g)
             IN  [out |-> r.out, jump_stack |-> r.jump_stack, ub |-> r.ub,
                  threw |-> r.threw, asserted |-> FALSE]

----------------------------------------------------------------------------
(* The data tape and the two data pointers (shared by execute and          *)
(* execute_tokens, whose instruction cases are the same statements).       *)
(*                                                                         *)
(* An interpreter's locals are a record c:                                 *)
(*   pc      "execute" or "execute_tokens" while its loop runs, then       *)
(*           "done" (it returned), "abort" (an assertion failed) or        *)
(*           "crash" (a fault)                                             *)
(*   ip      instruction_pointer                                           *)
(*   tape    data_tape            A, B   data_pointer_A, data_pointer_B    *)
(*   out     the bytes written    keys   the bytes getch() returned        *)
(*   ub      the undefined behaviour executed                              *)
(* What a turn of the loop takes from outside is a record n:               *)
(*   key     the character the terminal delivers to getch()                *)
(*   foreign the byte found at an address outside the tape                 *)
(*   outcome what the build does on undefined behaviour                    *)
(***************************************************************************)

TAPE_SIZE == 30000

Byte == 256

InTape(p) == p >= 0 /\ p < TAPE_SIZE

Cell(tape, p) == IF p \in DOMAIN tape THEN tape[p] ELSE 0

EmptyTape == [q \in {} |-> 0]

Store(tape, p, v) ==
    IF v = 0
    THEN [q \in DOMAIN tape \ {p} |-> tape[q]]
    ELSE [q \in DOMAIN tape \cup {p} |-> IF q = p THEN v ELSE tape[q]]

Pointer(c, sel) == IF sel = "A" THEN c.A ELSE c.B

\* **data_ptr read: outside the tape the byte is whatever lies there
Load(c, sel, n) ==
    IF InTape(Pointer(c, sel)) THEN Cell(c.tape, Pointer(c, sel)) ELSE n.foreign

\* **data_ptr = v: outside the tape the byte goes to memory that is not the tape
Write(c, sel, v) ==
    IF InTape(Pointer(c, sel))
    THEN [c EXCEPT !.tape = Store(c.tape, Pointer(c, sel), v)]
    ELSE c

\* getch() of getch.hpp: a char, with '\n' turned into '\r'; stored to a uint8_t
getch(key) == (IF key = 10 THEN 13 ELSE key) % Byte

\* Increment on a cell wider than a byte
IncrementNoWrap(c, sel, n) == Write(c, sel, Load(c, sel, n) + 1)

\* (**data_ptr)++
Increment(c, sel, n) == Write(c, sel, (Load(c, sel, n) + 1) % Byte)

\* (**data_ptr)--
Decrement(c, sel, n) == Write(c, sel, (Load(c, sel, n) - 1) % Byte)

\* MoveRight moving both pointers
MoveRightBoth(c, sel) == [c EXCEPT !.A = @ + 1, !.B = @ + 1]

\* (*data_ptr)++
MoveRight(c, sel) ==
    IF sel = "A" THEN [c EXCEPT !.A = @ + 1] ELSE [c EXCEPT !.B = @ + 1]

\* (*data_ptr)--
MoveLeft(c, sel) ==
    IF sel = "A" THEN [c EXCEPT !.A = @ - 1] ELSE [c EXCEPT !.B = @ - 1]

\* std::cout << (char)+(**data_ptr)
PutChar(c, sel, n) == [c EXCEPT !.out = Append(@, Load(c, sel, n))]

\* GetChar writing the cell to std::cout before getch() is stored in it
GetCharEchoFirst(c, sel, n) ==
    LET d == PutChar(c, sel, n)
        e == [d EXCEPT !.keys = Append(@, n.key)]
    IN  Write(e, sel, getch(n.key))

\* **data_ptr = getch(); std::cout << (char)+(**data_ptr)
GetChar(c, sel, n) ==
    LET d == Write(c, sel, getch(n.key))
        e == [d EXCEPT !.keys = Append(@, n.key)]
    IN  PutChar(e, sel, n)

\* The outcome of a turn that dereferenced a pointer outside the tape: the
\* access goes to the memory around the tape (next), or the process ends.
OutsideTape(c, sel, n, next) ==
    IF InTape(Pointer(c, sel))
    THEN next
    ELSE IF n.outcome = "continue"
         THEN [next EXCEPT !.ub = @ \cup {"tape_overrun"}]
         ELSE [c EXCEPT !.pc = n.outcome, !.ub = @ \cup {"tape_overrun"}]

\* The outcome of an instruction pointer that left the program: the process
\* faults, or runs on bytes that are not the program until an assertion
\* fails or a terminator ends the loop.
OutsideProgram(c, n) ==
    [c EXCEPT !.pc = IF n.outcome = "continue" THEN "done" ELSE n.outcome,
              !.ub = @ \cup {"program_overrun"}]

Aborted(c) == [c EXCEPT !.pc = "abort"]

----------------------------------------------------------------------------
(* execute *)

NUL == "NUL"

\* instructions[k] of the C string: the terminator follows the last character
CharAt(instrs, k) == IF k < Len(instrs) THEN instrs[k + 1] ELSE NUL

\* ScanForward without the level: it stops at the first ']'
RECURSIVE ScanForwardFirstClose(_, _, _)
ScanForwardFirstClose(instrs, ip, level) ==
    LET q  == ip + 2
        ch == CharAt(instrs, q)
    IN  IF q > Len(instrs) THEN -1
        ELSE IF ch = "]" THEN q ELSE ScanForwardFirstClose(instrs, q, level)

\* The scan of a '[' whose cell is 0, from offset ip with the given level:
\* the offset where level reaches 0, or -1 when the scan leaves the string.
RECURSIVE ScanForward(_, _, _)
ScanForward(instrs, ip, level) ==
    LET q  == ip + 2
        ch == CharAt(instrs, q)
        l2 == IF ch = "[" THEN level + 1
              ELSE IF ch = "]" THEN level - 1 ELSE level
    IN  IF q > Len(instrs) THEN -1
        ELSE IF l2 = 0 THEN q ELSE ScanForward(instrs, q, l2)

\* The scan of a ']' whose cell is not 0.
RECURSIVE ScanBackward(_, _, _)
ScanBackward(instrs, ip, level) ==
    LET q  == ip - 2
        ch == CharAt(instrs, q)
        l2 == IF ch = "[" THEN level - 1
              ELSE IF ch = "]" THEN level + 1 ELSE level
    IN  IF q < 0 THEN -1
        ELSE IF l2 = 0 THEN q ELSE ScanBackward(instrs, q, l2)

\* case '[' of execute, followed by instruction_pointer += 2
ExecuteLoopOpen(instrs, c, sel, n) ==
    IF Load(c, sel, n) = 0
    THEN LET q == ScanForward(instrs, c.ip, 1)
         IN  IF q < 0 THEN OutsideProgram(c, n) ELSE [c EXCEPT !.ip = q + 2]
    ELSE [c EXCEPT !.ip = @ + 2]

\* ExecuteLoopClose without the instruction_pointer -= 2 after the scan
ExecuteLoopCloseAfterOpen(instrs, c, sel, n) ==
    IF Load(c, sel, n) # 0
    THEN LET q == ScanBackward(instrs, c.ip, 1)
         IN  IF q < 0 THEN OutsideProgram(c, n) ELSE [c EXCEPT !.ip = q + 2]
    ELSE [c EXCEPT !.ip = @ + 2]

\* case ']' of execute, followed by instruction_pointer += 2
ExecuteLoopClose(instrs, c, sel, n) ==
    IF Load(c, sel, n) # 0
    THEN LET q == ScanBackward(instrs, c.ip, 1)
         IN  IF q < 0 THEN OutsideProgram(c, n) ELSE [c EXCEPT !.ip = (q - 2) + 2]
    ELSE [c EXCEPT !.ip = @ + 2]

\* One turn of execute's while loop (*instruction_pointer is not the terminator).
ExecuteTurn(instrs, c0, n) ==
    LET c   == [c0 EXCEPT !.trace = Append(@, c0.ip \div 2)]
        sel == CharAt(instrs, c.ip + 1)
        op  == CharAt(instrs, c.ip)
        adv == [c EXCEPT !.ip = @ + 2]
    IN  IF sel \notin SelChars THEN Aborted(c)
        ELSE IF op \notin OpChars THEN Aborted(c)
        ELSE IF op = ">" THEN MoveRight(adv, sel)
        ELSE IF op = "<" THEN MoveLeft(adv, sel)
        ELSE OutsideTape(c, sel, n,
               CASE op = "+" -> Increment(adv, sel, n)
                 [] op = "-" -> Decrement(adv, sel, n)
                 [] op = "." -> PutChar(adv, sel, n)
                 [] op = "," -> GetChar(adv, sel, n)
                 [] op = "[" -> ExecuteLoopOpen(instrs, c, sel, n)
                 [] op = "]" -> ExecuteLoopClose(instrs, c, sel, n))

----------------------------------------------------------------------------
(* execute_tokens *)

\* TokensLoopOpen jumping forward when the cell is not 0
TokensLoopOpenInverted(toks, c, ins, n) ==
    IF Load(c, ins.ptr, n) # 0
    THEN IF ins.jump = 0 THEN Aborted(c)
         ELSE IF c.ip + ins.jump >= Len(toks) THEN OutsideProgram(c, n)
         ELSE [c EXCEPT !.ip = (c.ip + ins.jump) + 1]
    ELSE [c EXCEPT !.ip = @ + 1]

\* case InstrType::LOOP_OPEN, followed by the for loop's instruction_pointer++
TokensLoopOpen(toks, c, ins, n) ==
    IF Load(c, ins.ptr, n) = 0
    THEN IF ins.jump = 0 THEN Aborted(c)
         ELSE IF c.ip + ins.jump >= Len(toks) THEN OutsideProgram(c, n)
         ELSE [c EXCEPT !.ip = (c.ip + ins.jump) + 1]
    ELSE [c EXCEPT !.ip = @ + 1]

\* TokensLoopClose jumping back when the cell is 0
TokensLoopCloseInverted(toks, c, ins, n) ==
    IF Load(c, ins.ptr, n) = 0
    THEN IF ins.jump = 0 THEN Aborted(c)
         ELSE IF c.ip - ins.jump < 0 THEN OutsideProgram(c, n)
         ELSE [c EXCEPT !.ip = (c.ip - ins.jump) + 1]
    ELSE [c EXCEPT !.ip = @ + 1]

\* TokensLoopClose landing on the LOOP_OPEN: std::prev by jump + 1
TokensLoopCloseOntoOpen(toks, c, ins, n) ==
    IF Load(c, ins.ptr, n) # 0
    THEN IF ins.jump = 0 THEN Aborted(c)
         ELSE IF c.ip - ins.jump < 0 THEN OutsideProgram(c, n)
         ELSE [c EXCEPT !.ip = ((c.ip - ins.jump) - 1) + 1]
    ELSE [c EXCEPT !.ip = @ + 1]

\* case InstrType::LOOP_CLOSE, followed by the for loop's instruction_pointer++
TokensLoopClose(toks, c, ins, n) ==
    IF Load(c, ins.ptr, n) # 0
    THEN IF ins.jump = 0 THEN Aborted(c)
         ELSE IF c.ip - ins.jump < 0 THEN OutsideProgram(c, n)
         ELSE [c EXCEPT !.ip = (c.ip - ins.jump) + 1]
    ELSE [c EXCEPT !.ip = @ + 1]

\* One turn of execute_tokens's for loop (instruction_pointer is not end()).
TokensTurn(toks, c0, n) ==
    LET c   == [c0 EXCEPT !.trace = Append(@, c0.ip)]
        ins == toks[c.ip + 1]
        adv == [c EXCEPT !.ip = @ + 1]
    IN  IF ins.ptr \notin Ptr THEN Aborted(c)
        ELSE IF ins.type = "RIGHT" THEN MoveRight(adv, ins.ptr)
        ELSE IF ins.type = "LEFT" THEN MoveLeft(adv, ins.ptr)
        ELSE OutsideTape(c, ins.ptr, n,
               CASE ins.type = "PLUS"       -> Increment(adv, ins.ptr, n)
                 [] ins.type = "MINUS"      -> Decrement(adv, ins.ptr, n)
                 [] ins.type = "OUTPUT"     -> PutChar(adv, ins.ptr, n)
                 [] ins.type = "INPUT"      -> GetChar(adv, ins.ptr, n)
                 [] ins.type = "LOOP_OPEN"  -> TokensLoopOpen(toks, c, ins, n)
                 [] ins.type = "LOOP_CLOSE" -> TokensLoopClose(toks, c, ins, n))

----------------------------------------------------------------------------
(* The two interpreters as functions of the program and of the characters  *)
(* typed: the loop of execute, and the loop of execute_tokens, run for at  *)
(* most fuel turns.  The result's pc is "done" when the loop ended,        *)
(* "unfinished" when the fuel ran out, "waiting" when getch() waits for a  *)
(* character beyond the script, "abort" or "crash" otherwise (undefined    *)
(* behaviour ends the run).                                                *)
(***************************************************************************)

\* Start with pointer B one cell to the right of pointer A
StartApart(loop) ==
    [pc |-> loop, ip |-> 0, tape |-> EmptyTape, A |-> 0, B |-> 1,
     out |-> <<>>, keys |-> <<>>, ub |-> {}, trace |-> <<>>]

\* the locals as execute and execute_tokens initialize them
Start(loop) ==
    [pc |-> loop, ip |-> 0, tape |-> EmptyTape, A |-> 0, B |-> 0,
     out |-> <<>>, keys |-> <<>>, ub |-> {}, trace |-> <<>>]

Typed(isInput, script) ==
    [key |-> IF isInput THEN Head(script) ELSE 0, foreign |-> 0,
     outcome |-> "crash"]

RECURSIVE RunExecute(_, _, _, _)
RunExecute(instrs, c, script, fuel) ==
    LET isInput == CharAt(instrs, c.ip) = ","
                   /\ CharAt(instrs, c.ip + 1) \in SelChars
    IN  IF c.pc # "execute" THEN c
        ELSE IF CharAt(instrs, c.ip) = NUL THEN [c EXCEPT !.pc = "done"]
        ELSE IF fuel = 0 THEN [c EXCEPT !.pc = "unfinished"]
        ELSE IF isInput /\ script = <<>> THEN [c EXCEPT !.pc = "waiting"]
        ELSE RunExecute(instrs,
                        ExecuteTurn(instrs, c, Typed(isInput, script)),
                        IF isInput THEN Tail(script) ELSE script, fuel - 1)

RECURSIVE RunTokens(_, _, _, _)
RunTokens(toks, c, script, fuel) ==
    LET isInput == toks[c.ip + 1].type = "INPUT" /\ toks[c.ip + 1].ptr \in Ptr
    IN  IF c.pc # "execute_tokens" THEN c
        ELSE IF c.ip = Len(toks) THEN [c EXCEPT !.pc = "done"]
        ELSE IF fuel = 0 THEN [c EXCEPT !.pc = "unfinished"]
        ELSE IF isInput /\ script = <<>> THEN [c EXCEPT !.pc = "waiting"]
        ELSE RunTokens(toks,
                       TokensTurn(toks, c, Typed(isInput, script)),
                       IF isInput THEN Tail(script) ELSE script, fuel - 1)

\* the instructions of a trace that are not brackets, in the order executed
NonBrackets(instrs, t) ==
    SelectSeq(t, LAMBDA i : CharAt(instrs, 2 * i) \notin {"[", "]"})

\* execute, stopped as soon as it has executed m instructions that are not
\* brackets
RECURSIVE RunExecuteUntil(_, _, _, _, _)
RunExecuteUntil(instrs, c, script, fuel, m) ==
    LET isInput == CharAt(instrs, c.ip) = ","
                   /\ CharAt(instrs, c.ip + 1) \in SelChars
    IN  IF c.pc # "execute" THEN c
        ELSE IF Len(NonBrackets(instrs, c.trace)) >= m THEN c
        ELSE IF CharAt(instrs, c.ip) = NUL THEN [c EXCEPT !.pc = "done"]
        ELSE IF fuel = 0 THEN [c EXCEPT !.pc = "unfinished"]
        ELSE IF isInput /\ script = <<>> THEN [c EXCEPT !.pc = "waiting"]
        ELSE RunExecuteUntil(instrs,
                             ExecuteTurn(instrs, c, Typed(isInput, script)),
                             IF isInput THEN Tail(script) ELSE script,
                             fuel - 1, m)

\* execute_tokens, stopped as soon as it has executed m instructions that
\* are not brackets (instrs is the text toks was made from)
RECURSIVE RunTokensUntil(_, _, _, _, _, _)
RunTokensUntil(instrs, toks, c, script, fuel, m) ==
    LET isInput == toks[c.ip + 1].type = "INPUT" /\ toks[c.ip + 1].ptr \in Ptr
    IN  IF c.pc # "execute_tokens" THEN c
        ELSE IF Len(NonBrackets(instrs, c.trace)) >= m THEN c
        ELSE IF c.ip = Len(toks) THEN [c EXCEPT !.pc = "done"]
        ELSE IF fuel = 0 THEN [c EXCEPT !.pc = "unfinished"]
        ELSE IF isInput /\ script = <<>> THEN [c EXCEPT !.pc = "waiting"]
        ELSE RunTokensUntil(instrs, toks,
                            TokensTurn(toks, c, Typed(isInput, script)),
                            IF isInput THEN Tail(script) ELSE script,
                            fuel - 1, m)

----------------------------------------------------------------------------
(* The sources main() is run on *)

\* the text of a sequence of (operation, selector) pairs
TextOf(p) ==
    [i \in 1..(2 * Len(p)) |-> IF i % 2 = 1 THEN p[(i + 1) \div 2][1]
                                            ELSE p[i \div 2][2]]

\* longer programs: the four scenario programs of the language's description,
\* a loop whose brackets name different pointers, and a nested loop
Scenario1 == <<"+", "A", ".", "A">>

Scenario1Switch == <<"A", "+", ".">>

Scenario2 == <<"+", "A", ">", "A", "-", "A", "<", "A", ".", "A">>

Scenario3 == <<"+", "A", "[", "A", "-", "A", "]", "A", ".", "A">>

Scenario4 == <<"+", "A", "+", "B", ".", "A", ".", "B">>

MixedLoop == <<",", "A", "[", "A", ">", "A", "-", "B", "]", "B">>

NestedLoop ==
    <<">", "B", ",", "A", "[", "A", "-", "A", "[", "B", "]", "B", "]", "A">>

NamedPrograms ==
    {Scenario1, Scenario2, Scenario3, Scenario4, MixedLoop, NestedLoop}

\* what a terminal delivers to getch(): a sample of the 256 characters
Keys == {0, 2, 10, 255}

\* the command line of a run on the source file SourcePath
ProgramName == "MindMeld"

SourcePath == "a.mm"

CommandLine(switch, toks) ==
    <<ProgramName>> \o (IF switch THEN <<"--switch">> ELSE <<>>)
                   \o (IF toks THEN <<"--tokens">> ELSE <<>>)
                   \o <<SourcePath>>

\* what lies at an address outside the tape: a sample of the 256 bytes
ForeignBytes == {0, 1}

\* what the build does on undefined behaviour: go on, fault, or abort
Outcomes == {"continue", "crash", "abort"}

----------------------------------------------------------------------------
(* main *)

\* The process starts with the text of the file and the two flags.  Raw
\* texts are run in both sanitization modes; the paired programs, which
\* source_sanitize leaves as they are, without --switch.
Init ==
    /\ \/ /\ \E k \in 0..MaxRawLen : raw_source \in [1..k -> RawChars]
          /\ SWITCH \in BOOLEAN
       \/ /\ \E k \in 0..MaxProg :
               \E p \in [1..k -> OpChars \X SelChars] : raw_source = TextOf(p)
          /\ SWITCH = FALSE
       \/ /\ raw_source \in NamedPrograms
          /\ SWITCH = FALSE
       \/ /\ raw_source = Scenario1Switch
          /\ SWITCH = TRUE
    /\ TOKENS \in BOOLEAN
    /\ instructions = <<>>
    /\ tokens = <<>>
    /\ jump_stack = <<>>
    /\ pc = "sanitize"
    /\ instruction_pointer = Start(pc).ip
    /\ data_tape = Start(pc).tape
    /\ data_pointer_A = Start(pc).A
    /\ data_pointer_B = Start(pc).B
    /\ output = <<>>
    /\ keys = <<>>
    /\ steps = 0
    /\ ub = {}
    /\ trace = <<>>
    /\ argv = CommandLine(SWITCH, TOKENS)
    /\ path = SourcePath
    /\ prompted = FALSE

Locals ==
    [pc |-> pc, ip |-> instruction_pointer, tape |-> data_tape,
     A |-> data_pointer_A, B |-> data_pointer_B, out |-> output,
     keys |-> keys, ub |-> ub, trace |-> trace]

SetLocals(c) ==
    /\ pc' = c.pc
    /\ instruction_pointer' = c.ip
    /\ data_tape' = c.tape
    /\ data_pointer_A' = c.A
    /\ data_pointer_B' = c.B
    /\ output' = c.out
    /\ keys' = c.keys
    /\ ub' = c.ub
    /\ trace' = c.trace

\* main: instructions = source_sanitize(raw_source)
SourceSanitize ==
    /\ pc = "sanitize"
    /\ ~SWITCH
    /\ instructions' = source_sanitize(raw_source)
    /\ pc' = IF TOKENS THEN "tokenize" ELSE "execute"
    /\ UNCHANGED <<raw_source, SWITCH, TOKENS, tokens, jump_stack,
                   instruction_pointer, data_tape, data_pointer_A,
                   data_pointer_B, output, keys, steps, ub, trace, argv,
                   path, prompted>>

\* main: instructions = switch_sanitize(raw_source)
SwitchSanitize ==
    /\ pc = "sanitize"
    /\ SWITCH
    /\ instructions' = switch_sanitize(raw_source)
    /\ pc' = IF TOKENS THEN "tokenize" ELSE "execute"
    /\ UNCHANGED <<raw_source, SWITCH, TOKENS, tokens, jump_stack,
                   instruction_pointer, data_tape, data_pointer_A,
                   data_pointer_B, output, keys, steps, ub, trace, argv,
                   path, prompted>>

\* main: tokenize(instructions, tokens).  A failed assertion and an uncaught
\* std::out_of_range end the process.
Tokenize ==
    /\ pc = "tokenize"
    /\ LET r0 == tokenize(instructions, NoGarbage)
       IN  \E g \in IF r0.ub = {} THEN {NoGarbage} ELSE Garbage :
           \E o \in IF r0.ub = {} THEN {"continue"} ELSE {"continue", "crash"} :
             LET r == tokenize(instructions, g)
             IN  /\ pc' = IF r.asserted \/ r.threw THEN "abort"
                          ELSE IF o = "crash" THEN "crash"
                          ELSE "execute_tokens"
                 /\ tokens' = IF pc' = "execute_tokens" THEN r.out ELSE tokens
                 /\ jump_stack' = r.jump_stack
                 /\ ub' = ub \cup r.ub
    /\ UNCHANGED <<raw_source, SWITCH, TOKENS, instructions,
                   instruction_pointer, data_tape, data_pointer_A,
                   data_pointer_B, output, keys, steps, trace, argv, path,
                   prompted>>

\* what a turn of an interpreter loop can take from outside; there is no
\* turn while getch() waits for a character that does not come
Choices(isInput, outside, isBracket) ==
    [key     : IF isInput THEN (IF Len(keys) < MaxKeys THEN Keys ELSE {})
               ELSE {0},
     foreign : IF outside THEN ForeignBytes ELSE {0},
     outcome : IF outside \/ isBracket THEN Outcomes ELSE {"continue"}]

\* execute: one turn of the while loop
Execute ==
    /\ pc = "execute"
    /\ steps < MaxSteps
    /\ CharAt(instructions, instruction_pointer) # NUL
    /\ LET op  == CharAt(instructions, instruction_pointer)
           sel == CharAt(instructions, instruction_pointer + 1)
       IN  \E n \in Choices(op = "," /\ sel \in SelChars,
                            sel \in SelChars /\ ~InTape(Pointer(Locals, sel)),
                            op \in {"[", "]"}) :
               SetLocals(ExecuteTurn(instructions, Locals, n))
    /\ steps' = steps + 1
    /\ UNCHANGED <<raw_source, SWITCH, TOKENS, instructions, tokens, jump_stack,
                   argv, path, prompted>>

\* ExecuteReturn with the loop ending one instruction before the terminator
ExecuteReturnEarly ==
    /\ pc = "execute"
    /\ CharAt(instructions, instruction_pointer + 2) = NUL
    /\ pc' = "done"
    /\ UNCHANGED <<raw_source, SWITCH, TOKENS, instructions, tokens, jump_stack,
                   instruction_pointer, data_tape, data_pointer_A,
                   data_pointer_B, output, keys, steps, ub, trace, argv,
                   path, prompted>>

\* execute: the while loop ends at the terminator; main returns 0
ExecuteReturn ==
    /\ pc = "execute"
    /\ CharAt(instructions, instruction_pointer) = NUL
    /\ pc' = "done"
    /\ UNCHANGED <<raw_source, SWITCH, TOKENS, instructions, tokens, jump_stack,
                   instruction_pointer, data_tape, data_pointer_A,
                   data_pointer_B, output, keys, steps, ub, trace, argv,
                   path, prompted>>

\* execute_tokens: one turn of the for loop
ExecuteTokens ==
    /\ pc = "execute_tokens"
    /\ steps < MaxSteps
    /\ instruction_pointer # Len(tokens)
    /\ LET ins == tokens[instruction_pointer + 1]
       IN  \E n \in Choices(ins.type = "INPUT" /\ ins.ptr \in Ptr,
                            ins.ptr \in Ptr /\ ~InTape(Pointer(Locals, ins.ptr)),
                            ins.type \in {"LOOP_OPEN", "LOOP_CLOSE"}) :
               SetLocals(TokensTurn(tokens, Locals, n))
    /\ steps' = steps + 1
    /\ UNCHANGED <<raw_source, SWITCH, TOKENS, instructions, tokens, jump_stack,
                   argv, path, prompted>>

\* execute_tokens: the for loop ends at end(); main returns 0
ExecuteTokensReturn ==
    /\ pc = "execute_tokens"
    /\ instruction_pointer = Len(tokens)
    /\ pc' = "done"
    /\ UNCHANGED <<raw_source, SWITCH, TOKENS, instructions, tokens, jump_stack,
                   instruction_pointer, data_tape, data_pointer_A,
                   data_pointer_B, output, keys, steps, ub, trace, argv,
                   path, prompted>>

Next ==
    \/ SourceSanitize
    \/ SwitchSanitize
    \/ Tokenize
    \/ Execute
    \/ ExecuteReturn
    \/ ExecuteTokens
    \/ ExecuteTokensReturn

Spec == Init /\ [][Next]_vars

----------------------------------------------------------------------------
(* main on programs: the process as in Init, on source texts that are      *)
(* (operation, selector) pairs, among them the programs with one loop.     *)
(***************************************************************************)

\* the instructions before and inside the loop of a program with one loop
LoopOps == {"+", "-", ">", ","}

\* the programs p [a q ]b .c with p and q an instruction of LoopOps
LoopPrograms ==
    {TextOf(<<p, <<"[", a>>, q, <<"]", b>>, <<".", c>>>>) :
        p \in LoopOps \X SelChars, a \in SelChars, q \in LoopOps \X SelChars,
        b \in SelChars, c \in SelChars}

RunInit ==
    /\ \/ /\ \E k \in 0..MaxProg :
               \E p \in [1..k -> OpChars \X SelChars] : raw_source = TextOf(p)
          /\ SWITCH = FALSE
       \/ /\ raw_source \in NamedPrograms \cup LoopPrograms
          /\ SWITCH = FALSE
       \/ /\ raw_source = Scenario1Switch
          /\ SWITCH = TRUE
    /\ TOKENS \in BOOLEAN
    /\ instructions = <<>>
    /\ tokens = <<>>
    /\ jump_stack = <<>>
    /\ pc = "sanitize"
    /\ instruction_pointer = Start(pc).ip
    /\ data_tape = Start(pc).tape
    /\ data_pointer_A = Start(pc).A
    /\ data_pointer_B = Start(pc).B
    /\ output = <<>>
    /\ keys = <<>>
    /\ steps = 0
    /\ ub = {}
    /\ trace = <<>>
    /\ argv = CommandLine(SWITCH, TOKENS)
    /\ path = SourcePath
    /\ prompted = FALSE

RunSpec == RunInit /\ [][Next]_vars

----------------------------------------------------------------------------
(* main, from its command line.  The process starts with argv; the file    *)
(* system holds one readable source file, SourcePath, whose text is one of *)
(* FileTexts; no other path can be read.                                   *)
(***************************************************************************)

\* what a command line is made of after argv[0]
Arguments == {"--switch", "--tokens", SourcePath, "b.mm"}

\* the lines a user types when asked for a path
TypedLines == {SourcePath, ""}

\* the texts the readable source file may hold
FileTexts == NamedPrograms \cup {Scenario1Switch}

\* std::fstream source(filename, source.in); if(source)
Readable(filename) == filename = SourcePath

\* main: for(int arg_pos = 1; arg_pos < argc; arg_pos++), argv[arg_pos]
\* being args[arg_pos + 1]
RECURSIVE ParseArguments(_, _, _)
ParseArguments(args, arg_pos, st) ==
    IF arg_pos >= Len(args) THEN st
    ELSE ParseArguments(args, arg_pos + 1,
           IF args[arg_pos + 1] = "--switch" THEN [st EXCEPT !.SWITCH = TRUE]
           ELSE IF args[arg_pos + 1] = "--tokens" THEN [st EXCEPT !.TOKENS = TRUE]
           ELSE [st EXCEPT !.path = args[arg_pos + 1]])

\* The process starts in main with its command line: argv[0] and up to
\* MaxArgs arguments, or no argv[0] at all (argc may be 0).
MainInit ==
    /\ \/ argv = <<>>
       \/ \E k \in 0..MaxArgs :
            \E a \in [1..k -> Arguments] : argv = <<ProgramName>> \o a
    /\ SWITCH = FALSE
    /\ TOKENS = FALSE
    /\ path = ""
    /\ prompted = FALSE
    /\ raw_source = <<>>
    /\ instructions = <<>>
    /\ tokens = <<>>
    /\ jump_stack = <<>>
    /\ pc = "main"
    /\ instruction_pointer = Start(pc).ip
    /\ data_tape = Start(pc).tape
    /\ data_pointer_A = Start(pc).A
    /\ data_pointer_B = Start(pc).B
    /\ output = <<>>
    /\ keys = <<>>
    /\ steps = 0
    /\ ub = {}
    /\ trace = <<>>

\* main: the argument loop, then the prompt under if(argc == 0)
MainArguments ==
    /\ pc = "main"
    /\ LET argc == Len(argv)
           st   == ParseArguments(argv, 1, [SWITCH |-> SWITCH, TOKENS |-> TOKENS,
                                            path |-> path])
       IN  /\ SWITCH' = st.SWITCH
           /\ TOKENS' = st.TOKENS
           /\ IF argc = 0
              THEN /\ prompted' = TRUE
                   /\ path' \in TypedLines
              ELSE /\ prompted' = prompted
                   /\ path' = st.path
    /\ pc' = "source_read"
    /\ UNCHANGED <<raw_source, instructions, tokens, jump_stack,
                   instruction_pointer, data_tape, data_pointer_A,
                   data_pointer_B, output, keys, steps, ub, trace, argv>>

\* main: raw_source(source_read(path)), the file opened
SourceRead ==
    /\ pc = "source_read"
    /\ Readable(path)
    /\ raw_source' \in FileTexts
    /\ pc' = "sanitize"
    /\ UNCHANGED <<SWITCH, TOKENS, instructions, tokens, jump_stack,
                   instruction_pointer, data_tape, data_pointer_A,
                   data_pointer_B, output, keys, steps, ub, trace, argv,
                   path, prompted>>

\* source_read: the file not opened: "Could not read", getch(), exit(-1)
SourceReadFails ==
    /\ pc = "source_read"
    /\ ~Readable(path)
    /\ pc' = "exit"
    /\ UNCHANGED <<raw_source, SWITCH, TOKENS, instructions, tokens,
                   jump_stack, instruction_pointer, data_tape, data_pointer_A,
                   data_pointer_B, output, keys, steps, ub, trace, argv,
                   path, prompted>>

MainNext ==
    \/ MainArguments
    \/ SourceRead
    \/ SourceReadFails
    \/ Next

MainSpec == MainInit /\ [][MainNext]_vars

----------------------------------------------------------------------------
(* Properties: the sanitizers *)

\* main has sanitized the source
Sanitized == pc # "sanitize"

\* even length, operation characters at the even offsets (counted from 0),
\* selector characters at the odd offsets
Alternating(s) ==
    /\ Len(s) % 2 = 0
    /\ \A i \in 1..Len(s) :
         IF i % 2 = 1 THEN s[i] \in OpChars ELSE s[i] \in SelChars

\* C2: the output of paired-mode sanitization (source_sanitize) has even
\* length, with an operation character at every even index and A or B at
\* every odd index, for every raw source text.
C2_PairedOutputAlternates ==
    (Sanitized /\ ~SWITCH) => Alternating(instructions)

\* the positions of the operation characters of a text
OpPositions(s) == {i \in 1..Len(s) : s[i] \in OpChars}

\* the most recent A or B before position i of a text, A if there is none
SelectorBefore(s, i) ==
    LET P == {j \in 1..(i - 1) : s[j] \in SelChars}
    IN  IF P = {} THEN "A" ELSE s[CHOOSE j \in P : \A k \in P : k <= j]

\* C3: the output of switch-mode sanitization (switch_sanitize) alternates
\* operation and selector characters and is exactly, over the operation
\* characters of the input in order, that character followed by the most
\* recent standalone A or B before it in the input (A if there is none);
\* every other character contributes nothing.
C3_SwitchOutput ==
    (Sanitized /\ SWITCH) =>
        /\ Alternating(instructions)
        /\ Len(instructions) = 2 * Cardinality(OpPositions(raw_source))
        /\ \A i \in OpPositions(raw_source) :
             LET k == Cardinality({j \in OpPositions(raw_source) : j <= i})
             IN  /\ instructions[2 * k - 1] = raw_source[i]
                 /\ instructions[2 * k] = SelectorBefore(raw_source, i)

\* a switch-mode text whose selector changes between two operations, with a
\* character that is dropped
C3_Witness ==
    /\ Sanitized
    /\ SWITCH
    /\ raw_source = <<"+", "B", "-">>
    /\ instructions = <<"+", "A", "-", "B">>

\* C7: source_sanitize applied to its own output returns that output
\* unchanged, for every raw source text.
C7_SanitizeIdempotent ==
    (Sanitized /\ ~SWITCH) => source_sanitize(instructions) = instructions

\* a paired-mode text of which source_sanitize dropped characters
C7_Witness ==
    /\ Sanitized
    /\ ~SWITCH
    /\ raw_source = <<"A", "A", "x">>
    /\ instructions = <<"A">>

\* C8, as claimed: paired-mode sanitization of AB+ yields B+.
C8_Original ==
    (Sanitized /\ ~SWITCH /\ raw_source = <<"A", "B", "+">>)
        => instructions = <<"B", "+">>

\* C8, amended: paired-mode sanitization of AB+ yields A+; of a run of
\* selector characters the first is kept and the later ones are dropped, so
\* no two selector characters are adjacent in the output.
C8_FirstSelectorKept ==
    (Sanitized /\ ~SWITCH) =>
        /\ raw_source = <<"A", "B", "+">> => instructions = <<"A", "+">>
        /\ \A i \in 1..(Len(instructions) - 1) :
             ~(instructions[i] \in SelChars /\ instructions[i + 1] \in SelChars)

\* AB+ has been sanitized in paired mode
C8_Witness ==
    /\ Sanitized
    /\ ~SWITCH
    /\ raw_source = <<"A", "B", "+">>
    /\ Len(instructions) = 2

----------------------------------------------------------------------------
(* Properties: programs and their brackets *)

\* number of instructions of a paired text
NumInstr(s) == Len(s) \div 2

\* the operation character of instruction i (counted from 0)
OpAt(s, i) == s[2 * i + 1]

\* '[' minus ']' among the instructions i..j
Excess(s, i, j) ==
    Cardinality({k \in i..j : OpAt(s, k) = "["})
    - Cardinality({k \in i..j : OpAt(s, k) = "]"})

\* brackets balanced and properly nested
Balanced(s) ==
    /\ \A j \in 0..(NumInstr(s) - 1) : Excess(s, 0, j) >= 0
    /\ Excess(s, 0, NumInstr(s) - 1) = 0

WellFormed(s) == Alternating(s) /\ Balanced(s)

\* the ']' that matches the '[' at instruction i of a balanced text
MatchOf(s, i) ==
    CHOOSE j \in (i + 1)..(NumInstr(s) - 1) :
        /\ Excess(s, i, j) = 0
        /\ \A k \in (i + 1)..(j - 1) : Excess(s, i, k) # 0

\* tokenize has returned to main
Tokenized == TOKENS /\ pc \notin {"sanitize", "tokenize"}

\* turns given to the interpreter a state is compared with
RunFuel == 2 * MaxSteps

\* C1: for every well-formed program (the selectors of a matched pair may
\* differ) and every input, execute and tokenize + execute_tokens produce
\* the same output bytes and the same final tape, and one terminates if and
\* only if the other does.  Stated of a run that ended normally: the other
\* interpreter, given the same program and the same typed characters, ends
\* normally too with the same output and tape (a run cut off by RunFuel
\* decides nothing).
C1_SameOutputAndTape ==
    (pc = "done" /\ ub = {} /\ WellFormed(instructions)) =>
        LET other ==
              IF TOKENS
              THEN RunExecute(instructions, Start("execute"), keys, RunFuel)
              ELSE RunTokens(tokenize(instructions, NoGarbage).out,
                             Start("execute_tokens"), keys, RunFuel)
        IN  \/ other.pc = "unfinished"
            \/ /\ other.pc = "done"
               /\ other.out = output
               /\ other.tape = data_tape

\* C4: a source with mismatched brackets is rejected in both execution
\* modes: it never runs to a normal termination, it produces no output, and
\* tokenize never pops its position stack while it is empty.
C4_MismatchedRejected ==
    (Sanitized /\ Alternating(instructions) /\ ~Balanced(instructions)) =>
        /\ pc # "done"
        /\ output = <<>>
        /\ "pop_empty" \notin ub

\* C5: for every program with balanced, properly nested brackets, tokenize
\* gives both tokens of each matched pair the same jump, the index of the
\* LOOP_CLOSE minus the index of the LOOP_OPEN counted in instructions, and
\* its position stack is empty after the last instruction.
C5_JumpSymmetry ==
    (Tokenized /\ WellFormed(instructions)) =>
        /\ Len(tokens) = NumInstr(instructions)
        /\ jump_stack = <<>>
        /\ \A i \in 0..(NumInstr(instructions) - 1) :
             OpAt(instructions, i) = "[" =>
                LET j == MatchOf(instructions, i)
                IN  /\ tokens[i + 1].type = "LOOP_OPEN"
                    /\ tokens[j + 1].type = "LOOP_CLOSE"
                    /\ tokens[i + 1].jump = j - i
                    /\ tokens[j + 1].jump = j - i

\* a nested loop has been tokenized: the outer pair is 4 instructions
\* apart, the inner pair 1
C5_Witness ==
    /\ Tokenized
    /\ instructions = NestedLoop
    /\ tokens[3].jump = 4
    /\ tokens[5].jump = 1
    /\ tokens[6].jump = 1
    /\ tokens[7].jump = 4

\* C6: for every program with balanced brackets and every input, every
\* bracket token has jump >= 1 and the assertions jump != 0 of
\* execute_tokens never fail (a failed assertion aborts the process).
C6_JumpNeverZero ==
    (Tokenized /\ WellFormed(instructions) /\ ub = {}) =>
        /\ pc # "abort"
        /\ \A i \in 1..Len(tokens) :
             tokens[i].type \in {"LOOP_OPEN", "LOOP_CLOSE"} => tokens[i].jump >= 1

\* the nested loop has run to its end on the key 2: its inner LOOP_OPEN
\* jumped forward and its outer LOOP_CLOSE jumped back
C6_Witness ==
    /\ Tokenized
    /\ instructions = NestedLoop
    /\ keys = <<2>>
    /\ pc = "done"
    /\ ub = {}

----------------------------------------------------------------------------
(* Properties: the tape *)

\* the instruction the interpreter loop is at, if it is at one
Current ==
    IF /\ pc = "execute"
       /\ CharAt(instructions, instruction_pointer) \in OpChars
       /\ CharAt(instructions, instruction_pointer + 1) \in SelChars
    THEN [type |-> TypeOf(CharAt(instructions, instruction_pointer)),
          ptr  |-> CharAt(instructions, instruction_pointer + 1)]
    ELSE IF /\ pc = "execute_tokens"
            /\ instruction_pointer < Len(tokens)
            /\ tokens[instruction_pointer + 1].ptr \in Ptr
    THEN [type |-> tokens[instruction_pointer + 1].type,
          ptr  |-> tokens[instruction_pointer + 1].ptr]
    ELSE [type |-> "NONE", ptr |-> "A"]

\* the offset of the pointer the current instruction selects
CurrentPointer == IF Current.ptr = "A" THEN data_pointer_A ELSE data_pointer_B

\* the step is a turn of an interpreter loop
Turn == steps' = steps + 1

\* C9: in every reachable state of either interpreter, every read or write
\* of a cell is made through a cursor whose offset lies in 0..29999.
C9_CursorInsideTape == "tape_overrun" \notin ub

\* C10: in both interpreters Increment sets the selected cell to (old + 1)
\* mod 256 and Decrement to (old - 1) mod 256, so that 255 + 1 = 0 and
\* 0 - 1 = 255, and every cell stays in 0..255.
C10_Wraparound ==
    /\ [](\A p \in DOMAIN data_tape : data_tape[p] \in 0..255)
    /\ [][(Turn /\ InTape(CurrentPointer)) =>
            LET old == Cell(data_tape, CurrentPointer)
                new == Cell(data_tape', CurrentPointer)
            IN  /\ Current.type = "PLUS" =>
                     /\ new = (old + 1) % 256
                     /\ old = 255 => new = 0
                /\ Current.type = "MINUS" =>
                     /\ new = (old - 1) % 256
                     /\ old = 0 => new = 255
          ]_vars

\* -A+A has run: the cell went from 0 to 255 and from 255 to 0
C10_Witness ==
    /\ instructions = <<"-", "A", "+", "A">>
    /\ steps = 2
    /\ pc \in {"execute", "execute_tokens"}
    /\ data_tape = EmptyTape

----------------------------------------------------------------------------
(* Properties: the runs of the scenario programs *)

\* an interpreter loop is running
Running == pc \in {"execute", "execute_tokens"}

\* the instructions 0, 1, ... k - 1 in source order
InOrder(k) == [i \in 1..k |-> i - 1]

\* C11: the run of +A[A-A]A.A in either execution mode terminates, executes
\* the loop body -A exactly once (every instruction is executed once, in
\* source order) and writes exactly one byte, whose value is 0.
C11_LoopRunsOnce ==
    (instructions = Scenario3 /\ ~SWITCH) =>
        /\ pc \in {"tokenize", "execute", "execute_tokens", "done"}
        /\ pc = "done" \/ ENABLED Next
        /\ trace = InOrder(steps)
        /\ Cardinality({i \in 1..Len(trace) : trace[i] = 2}) <= 1
        /\ pc = "done" =>
             /\ trace = <<0, 1, 2, 3, 4>>
             /\ output = <<0>>
             /\ data_tape = EmptyTape

\* +A[A-A]A.A has run to its end in the tokenized mode
C11_Witness ==
    /\ instructions = Scenario3
    /\ TOKENS
    /\ pc = "done"
    /\ trace = <<0, 1, 2, 3, 4>>
    /\ output = <<0>>

\* C12: both pointers start at offset 0 of a zeroed tape and may alias:
\* while neither has moved, a write through one selector is read through
\* the other, so that +A+B.A.B leaves 2 in cell 0 and writes two bytes,
\* both 2, in either execution mode.
C12_AliasedPointers ==
    /\ (Running /\ steps = 0) =>
         /\ data_pointer_A = 0
         /\ data_pointer_B = 0
         /\ data_tape = EmptyTape
    /\ (instructions = Scenario4 /\ ~SWITCH) =>
         /\ pc \in {"tokenize", "execute", "execute_tokens", "done"}
         /\ data_pointer_A = data_pointer_B
         /\ steps >= 2 => data_tape = (0 :> 2)
         /\ steps >= 3 => output[1] = 2
         /\ pc = "done" =>
              /\ output = <<2, 2>>
              /\ Cell(data_tape, 0) = 2

\* +A+B.A.B has run to its end in the direct mode
C12_Witness ==
    /\ instructions = Scenario4
    /\ ~TOKENS
    /\ pc = "done"
    /\ data_tape = (0 :> 2)
    /\ output = <<2, 2>>

----------------------------------------------------------------------------
(* Properties: the command line *)

\* the command line names the program and, after it, nothing but flags
NoPathArgument ==
    /\ Len(argv) >= 1
    /\ \A i \in 2..Len(argv) : argv[i] \in {"--switch", "--tokens"}

\* C13: when the command line holds no path argument (the program name
\* only, with or without --switch and --tokens), main asks for the path and
\* reads it before it tries to read a source file.
C13_PromptsWithoutPath ==
    (NoPathArgument /\ pc # "main") => prompted

----------------------------------------------------------------------------
(* Properties: the instructions, one turn at a time *)

\* the cells other than the one at offset p are left as they are
OtherCellsUnchanged(p) ==
    \A q \in (DOMAIN data_tape \cup DOMAIN data_tape') \ {p} :
        Cell(data_tape', q) = Cell(data_tape, q)

\* C14: in both interpreters an Input through selector X takes exactly one
\* byte from the console (what getch() returns), stores that byte in the
\* cell at pointer X and writes the same byte to the output before the next
\* instruction; no other cell and neither pointer changes.  No other
\* instruction takes a byte from the console.
C14_InputStoresAndEchoes ==
    [][(Turn /\ Current.type # "NONE" /\ InTape(CurrentPointer)) =>
          IF Current.type = "INPUT"
          THEN /\ Len(keys') = Len(keys) + 1
               /\ SubSeq(keys', 1, Len(keys)) = keys
               /\ LET byte == getch(keys'[Len(keys')])
                  IN  /\ Cell(data_tape', CurrentPointer) = byte
                      /\ output' = Append(output, byte)
               /\ OtherCellsUnchanged(CurrentPointer)
               /\ data_pointer_A' = data_pointer_A
               /\ data_pointer_B' = data_pointer_B
               /\ Len(trace') = Len(trace) + 1
          ELSE keys' = keys
      ]_vars

\* ,A,B has run on the keys 255 and 2: the cell both pointers are at holds
\* the last byte, the output holds both bytes in the order they were read
C14_Witness ==
    /\ instructions = <<",", "A", ",", "B">>
    /\ keys = <<255, 2>>
    /\ output = <<255, 2>>
    /\ data_tape = (0 :> 2)
    /\ data_pointer_A = 0
    /\ data_pointer_B = 0

----------------------------------------------------------------------------
(* Properties: the brackets *)

\* C15: for every balanced program, whatever the selectors of its brackets,
\* the scans of execute agree with the distances of tokenize: the forward
\* scan from the LoopOpen at instruction i stops at instruction
\* i + jump(i), the backward scan from the LoopClose at instruction j stops
\* at instruction j - jump(j), and neither scan leaves the instructions.
C15_ScansAgreeWithJumps ==
    (Tokenized /\ WellFormed(instructions)) =>
        \A i \in 0..(NumInstr(instructions) - 1) :
            /\ OpAt(instructions, i) = "[" =>
                 LET q == ScanForward(instructions, 2 * i, 1)
                 IN  /\ q = 2 * (i + tokens[i + 1].jump)
                     /\ q >= 0
                     /\ q < Len(instructions)
            /\ OpAt(instructions, i) = "]" =>
                 LET q == ScanBackward(instructions, 2 * i, 1)
                 IN  /\ q = 2 * (i - tokens[i + 1].jump)
                     /\ q >= 0
                     /\ q < Len(instructions)

\* the nested loop, whose outer pair is 4 instructions apart: the forward
\* scan from its outer '[' passes the inner pair and stops at the outer ']',
\* the backward scan from there stops at the outer '['
C15_Witness ==
    /\ Tokenized
    /\ instructions = NestedLoop
    /\ tokens[3].jump = 4
    /\ ScanForward(instructions, 4, 1) = 12
    /\ ScanBackward(instructions, 12, 1) = 4

\* the '[' that matches the ']' at instruction j of a balanced text
OpenOf(s, j) ==
    CHOOSE i \in 0..(j - 1) : OpAt(s, i) = "[" /\ MatchOf(s, i) = j

\* C16: in execute, a LoopClose whose cell is not 0 is followed by the
\* matching LoopOpen itself, whose test is made again with the LoopOpen's
\* own selector; a LoopClose whose cell is 0 is followed by the instruction
\* after it.
C16_DirectCloseRetestsOpen ==
    [][(Turn /\ pc = "execute" /\ InTape(CurrentPointer)
             /\ WellFormed(instructions)) =>
          /\ Current.type = "LOOP_CLOSE" =>
               LET j == instruction_pointer \div 2
                   i == OpenOf(instructions, j)
               IN  /\ pc' = "execute"
                   /\ IF Cell(data_tape, CurrentPointer) # 0
                      THEN /\ instruction_pointer' = 2 * i
                           /\ CharAt(instructions, instruction_pointer') = "["
                      ELSE instruction_pointer' = instruction_pointer + 2
          /\ Current.type = "LOOP_OPEN" =>
               LET i == instruction_pointer \div 2
                   j == MatchOf(instructions, i)
               IN  /\ pc' = "execute"
                   /\ Current.ptr = CharAt(instructions, instruction_pointer + 1)
                   /\ IF Cell(data_tape, CurrentPointer) = 0
                      THEN instruction_pointer' = 2 * j + 2
                      ELSE instruction_pointer' = instruction_pointer + 2
      ]_vars

\* ,A[A>A-B]B in execute on the key 2: the LoopClose found 1 in pointer B's
\* cell and the loop is at the LoopOpen, instruction 1, again
C16_Witness ==
    /\ instructions = MixedLoop
    /\ pc = "execute"
    /\ keys = <<2>>
    /\ trace = <<0, 1, 2, 3, 4>>
    /\ instruction_pointer = 2

\* C19: in execute_tokens, a LoopClose whose cell is not 0 moves the
\* instruction pointer to the matching LoopOpen and the loop's increment
\* moves it on, so that the instruction after the LoopOpen is executed next
\* and the LoopOpen's test is not made again; a LoopClose whose cell is 0
\* is followed by the instruction after it.
C19_TokensCloseSkipsOpen ==
    [][(Turn /\ pc = "execute_tokens" /\ Current.type = "LOOP_CLOSE"
             /\ InTape(CurrentPointer) /\ WellFormed(instructions)) =>
          LET j == instruction_pointer
              i == OpenOf(instructions, j)
          IN  /\ pc' = "execute_tokens"
              /\ IF Cell(data_tape, CurrentPointer) # 0
                 THEN /\ instruction_pointer' = i + 1
                      /\ tokens[i + 1].type = "LOOP_OPEN"
                 ELSE instruction_pointer' = instruction_pointer + 1
      ]_vars

\* ,A[A>A-B]B in execute_tokens on the key 2: the LoopClose found 1 in
\* pointer B's cell and the loop is at instruction 2, after the LoopOpen,
\* although pointer A's cell is 0
C19_Witness ==
    /\ instructions = MixedLoop
    /\ pc = "execute_tokens"
    /\ keys = <<2>>
    /\ trace = <<0, 1, 2, 3, 4>>
    /\ instruction_pointer = 2
    /\ Cell(data_tape, data_pointer_A) = 0

----------------------------------------------------------------------------
(* Properties: what an instruction leaves alone *)

\* C17: in both interpreters an instruction through selector A never moves
\* pointer B and one through selector B never moves pointer A; CursorLeft,
\* CursorRight, Output, LoopOpen and LoopClose change no cell; Increment,
\* Decrement and Input change no cell but the one at the selected pointer.
C17_FrameConditions ==
    [][(Turn /\ Current.type # "NONE"
             /\ (InTape(CurrentPointer) \/ Current.type \in {"LEFT", "RIGHT"})) =>
          /\ Current.ptr = "A" => data_pointer_B' = data_pointer_B
          /\ Current.ptr = "B" => data_pointer_A' = data_pointer_A
          /\ Current.type \in {"LEFT", "RIGHT", "OUTPUT", "LOOP_OPEN", "LOOP_CLOSE"}
                => data_tape' = data_tape
          /\ Current.type \in {"PLUS", "MINUS", "INPUT"}
                => OtherCellsUnchanged(CurrentPointer)
      ]_vars

\* >B has moved pointer B and left pointer A, then +A has changed the cell
\* at pointer A, the only cell that is not 0
C17_Witness ==
    /\ instructions = <<">", "B", "+", "A">>
    /\ steps = 2
    /\ data_pointer_A = 0
    /\ data_pointer_B = 1
    /\ data_tape = (0 :> 1)

----------------------------------------------------------------------------
(* Properties: termination *)

\* the text holds no bracket
LoopFree(s) == \A i \in 1..Len(s) : s[i] \notin {"[", "]"}

\* the index of the instruction the loop is at
InstructionIndex ==
    IF pc = "execute" THEN instruction_pointer \div 2 ELSE instruction_pointer

\* getch() waits for a character the terminal does not deliver
WaitingForKey == Current.type = "INPUT" /\ Len(keys) >= MaxKeys

\* C18: for every well-formed program without LoopOpen and LoopClose whose
\* run keeps both pointers inside the tape, both interpreters terminate:
\* each of the n instructions is executed exactly once, in source order,
\* and the loop ends with the instruction pointer at the end of the
\* instructions.  (A run goes on as long as the terminal delivers the
\* characters its Input instructions wait for.)
C18_LoopFreeTerminates ==
    (/\ pc \in {"execute", "execute_tokens", "done", "abort", "crash"}
     /\ Alternating(instructions)
     /\ LoopFree(instructions)
     /\ ub = {}) =>
        /\ pc \in {"execute", "execute_tokens", "done"}
        /\ trace = InOrder(steps)
        /\ Running => InstructionIndex = steps
        /\ steps <= NumInstr(instructions)
        /\ pc = "done" \/ WaitingForKey \/ ENABLED Next
        /\ pc = "done" =>
             /\ steps = NumInstr(instructions)
             /\ trace = InOrder(NumInstr(instructions))
             /\ instruction_pointer =
                  IF TOKENS THEN Len(tokens) ELSE Len(instructions)

\* +A>A-A<A.A has run to its end in execute: five instructions, five turns
C18_Witness ==
    /\ instructions = Scenario2
    /\ ~TOKENS
    /\ pc = "done"
    /\ trace = <<0, 1, 2, 3, 4>>
    /\ instruction_pointer = 10
    /\ ub = {}

----------------------------------------------------------------------------
(* Properties: the two interpreters on loops closed by their own selector *)

\* every '[' of the balanced text has the selector of its ']'
SameSelectors(s) ==
    \A i \in 0..(NumInstr(s) - 1) :
        OpAt(s, i) = "[" => s[2 * i + 2] = s[2 * MatchOf(s, i) + 2]

\* the other interpreter on the same program and the keys read so far,
\* stopped after m instructions that are not brackets
OtherRunUntil(m) ==
    IF TOKENS
    THEN RunExecuteUntil(instructions, Start("execute"), keys, RunFuel, m)
    ELSE RunTokensUntil(instructions, tokenize(instructions, NoGarbage).out,
                        Start("execute_tokens"), keys, RunFuel, m)

\* the other interpreter on the same program and the keys read so far
OtherRun ==
    IF TOKENS
    THEN RunExecute(instructions, Start("execute"), keys, RunFuel)
    ELSE RunTokens(tokenize(instructions, NoGarbage).out,
                   Start("execute_tokens"), keys, RunFuel)

\* the configuration has the tape, the pointers, the output and the keys of
\* the state, and has executed the same instructions that are not brackets
SameAs(c) ==
    /\ NonBrackets(instructions, c.trace) = NonBrackets(instructions, trace)
    /\ c.tape = data_tape
    /\ c.A = data_pointer_A
    /\ c.B = data_pointer_B
    /\ c.out = output
    /\ c.keys = keys

\* C20: on balanced programs whose matched brackets carry the same
\* selector, execute and execute_tokens execute the same sequence of
\* instructions that are not brackets for every input, with the same
\* output, tape and pointer offsets after each of them, and one terminates
\* if the other does.
C20_SameSelectorEquivalence ==
    (/\ pc \in {"execute", "execute_tokens", "done"}
     /\ WellFormed(instructions)
     /\ SameSelectors(instructions)
     /\ ub = {}) =>
        /\ SameAs(OtherRunUntil(Len(NonBrackets(instructions, trace))))
        /\ pc = "done" => (OtherRun.pc = "done" /\ SameAs(OtherRun))

\* the nested loop, whose brackets are closed by their own selectors, has
\* run to its end in execute on the key 2: two turns of the outer loop
C20_Witness ==
    /\ instructions = NestedLoop
    /\ ~TOKENS
    /\ pc = "done"
    /\ keys = <<2>>
    /\ ub = {}

=============================================================================
